---------------------------- MODULE Spec2Model ----------------------------
(***************************************************************************)
(* A model of opc_python/utils/loading.py: the dilution parser, the        *)
(* replicate detection of the BMC loader, the perceptual-data loader with  *)
(* its row splitting, the (compound id, dilution) index with its on-disk   *)
(* cache, and the join of the molecular feature tables.                    *)
(*                                                                         *)
(* Text is modelled as a sequence of one-character strings, so that the    *)
(* parser's replace/split steps are computed character by character.       *)
(* Each component has a specification of its own (SpecDilution, SpecBmc,   *)
(* SpecLoad, SpecCache, SpecMolecular, SpecWrite); the variables of the    *)
(* other components stay at their idle values.                             *)
(***************************************************************************)
EXTENDS Integers, Sequences, FiniteSets, TLC

VARIABLES
    dilution,        \* dilution2magnitude: the argument (a character sequence)
    magnitude,       \* dilution2magnitude: what the call did ("pending" before)
    df,              \* format_bmc_data: the raw data frame (a sequence of rows)
    bmc,             \* format_bmc_data: position and the indexed frame
    kind,            \* load_perceptual_data: the kind argument
    lines,           \* load_perceptual_data: the data lines of the file read
    line_num,        \* load_perceptual_data: data lines consumed so far
    data,            \* load_perceptual_data: the rows appended so far
    perceptual,      \* load_perceptual_data: stage and the formatted result
    raw_files,       \* the three raw perceptual files (read-only)
    cache,           \* data/derived/<kind>.csv: "absent" or the rows written
    last,            \* get_CID_dilutions / cache_cid_dilutions: the last call
    sources,         \* get_molecular_data: the sources argument
    CIDs,            \* get_molecular_data: the CIDs argument
    tables,          \* get_molecular_data: the compound ids in each feature file
    dfs,             \* get_molecular_data: the per-source frames built so far
    molecular,       \* get_molecular_data: what the call did
    Y,               \* write_prediction_files: the predictions to write
    subchallenge,    \* write_prediction_files: the subchallenge argument
    kind_index,      \* write_prediction_files: get_CID_dilutions(kind), for get_CIDs
    writer           \* write_prediction_files: loop position and rows written

dilVars   == <<dilution, magnitude>>
bmcVars   == <<df, bmc>>
loadVars  == <<kind, lines, line_num, data, perceptual>>
cacheVars == <<raw_files, cache, last>>
molVars   == <<sources, CIDs, tables, dfs, molecular>>
outVars   == <<Y, subchallenge, kind_index, writer>>
vars      == <<dilVars, bmcVars, loadVars, cacheVars, molVars, outVars>>

IdleDil   == dilution = <<>> /\ magnitude = "idle"
IdleBmc   == df = <<>> /\ bmc = "idle"
IdleLoad  == kind = "idle" /\ lines = <<>> /\ line_num = 0 /\ data = <<>>
             /\ perceptual = "idle"
IdleCache == raw_files = "idle" /\ cache = "idle" /\ last = "idle"
IdleMol   == sources = <<>> /\ CIDs = {} /\ tables = "idle" /\ dfs = "idle"
             /\ molecular = "idle"
IdleOut   == Y = "idle" /\ subchallenge = 0 /\ kind_index = <<>>
             /\ writer = "idle"

(***************************************************************************)
(* Bounds of the model.                                                    *)
(***************************************************************************)
MaxDenomLen == 4      \* characters of a denominator after its leading digit
MaxExp == 8           \* largest power of ten the model's log10 is asked for
MaxBmcRows == 3       \* rows of the raw BMC data frame
MaxLines == 2         \* data lines of a perceptual file (load_perceptual_data)
NumDescriptors == 3   \* descriptor columns of a perceptual file (21 in the data)
MaxTrainLines == 2    \* data lines of TrainSet.txt (get_CID_dilutions)
MaxPasses == 2        \* cache_cid_dilutions runs in a row
MaxSources == 2       \* entries of the sources argument of get_molecular_data
NumSubjects == 2      \* NUM_SUBJECTS of write_prediction_files (49 in the data)
MaxValue == 29        \* largest prediction tried, in units of 0.0001

-----------------------------------------------------------------------------
(***************************************************************************)
(* Generic helpers on sequences.                                           *)
(***************************************************************************)
RECURSIVE Remove(_, _)
\* str.replace(c, ''): every occurrence of the character c dropped.
Remove(s, c) ==
    IF s = <<>> THEN <<>>
    ELSE IF Head(s) = c THEN Remove(Tail(s), c)
         ELSE <<Head(s)>> \o Remove(Tail(s), c)

RECURSIVE UpTo(_, _)
\* The characters of s before its first c (all of s when it holds no c).
UpTo(s, c) ==
    IF s = <<>> \/ Head(s) = c THEN <<>>
    ELSE <<Head(s)>> \o UpTo(Tail(s), c)

RECURSIVE After(_, _)
\* The characters of s after its first c (s must hold one).
After(s, c) ==
    IF Head(s) = c THEN Tail(s) ELSE After(Tail(s), c)

Has(s, c) == \E i \in 1..Len(s) : s[i] = c

RECURSIVE Split(_, _)
\* str.split(sep): the pieces between the separators, at least one piece.
Split(s, sep) ==
    IF Has(s, sep) THEN <<UpTo(s, sep)>> \o Split(After(s, sep), sep)
    ELSE <<s>>

Range(s) == {s[i] : i \in 1..Len(s)}

HasDuplicates(s) == \E i, j \in 1..Len(s) : i < j /\ s[i] = s[j]

RECURSIVE Pow10(_)
Pow10(k) == IF k = 0 THEN 1 ELSE 10 * Pow10(k - 1)

-----------------------------------------------------------------------------
(***************************************************************************)
(* dilution2magnitude (lines 441-444).                                     *)
(***************************************************************************)
Digits == {"0", "1"}
DigitValue(c) == IF c = "1" THEN 1 ELSE 0

RECURSIVE Decimal(_)
\* The number a string of digits writes.
Decimal(s) ==
    IF s = <<>> THEN 0
    ELSE 10 * Decimal(SubSeq(s, 1, Len(s) - 1)) + DigitValue(s[Len(s)])

\* float(x) over the model's alphabet: a non-empty string of digits is a
\* number, anything else (the empty string, a letter) is a ValueError.
FloatOk(s) == s # <<>> /\ \A i \in 1..Len(s) : s[i] \in Digits

\* numpy.log10(1.0 / v) for v a power of ten: minus the exponent.
Log10Recip(v) == 0 - (CHOOSE k \in 0..MaxExp : Pow10(k) = v)

\* Denom with the single quotes left in (the second replace forgotten).
Denom_DoubleQuotesOnly(dilution_) ==
    Remove(Split(Remove(dilution_, "\""), "/")[2], ",")

\* Line 442-443: the quotes dropped, the second piece of the split on '/',
\* its commas dropped.
Denom(dilution_) ==
    Remove(Split(Remove(Remove(dilution_, "\""), "'"), "/")[2], ",")

\* The whole call: the magnitude, or the exception that ends it.
dilution2magnitude(dilution_) ==
    IF Len(Split(Remove(Remove(dilution_, "\""), "'"), "/")) < 2
    THEN [exc |-> "IndexError", mag |-> 0]
    ELSE LET denom == Denom(dilution_) IN
         IF ~FloatOk(denom) THEN [exc |-> "ValueError", mag |-> 0]
         ELSE IF Decimal(denom) = 0 THEN [exc |-> "ZeroDivisionError", mag |-> 0]
         ELSE [exc |-> "none", mag |-> Log10Recip(Decimal(denom))]

RECURSIVE SeqsUpTo(_, _)
\* Every sequence over S of length at most n.
SeqsUpTo(S, n) ==
    IF n = 0 THEN {<<>>}
    ELSE LET shorter == SeqsUpTo(S, n - 1) IN
         shorter \cup {<<c>> \o s : c \in S, s \in {t \in shorter : Len(t) = n - 1}}

\* The denominators tried: an optional leading 1, then zeros, commas and a
\* letter in any order (so the numeric ones are 0 or a power of ten).
DenomTexts ==
    LET rest == SeqsUpTo({"0", ",", "x"}, MaxDenomLen) IN
    rest \cup {<<"1">> \o r : r \in rest}

Numerators == {<<>>, <<"1">>, <<"x">>}

\* What follows the numerator: nothing, '/' and a denominator, or that and a
\* second '/' with more text.
RatioTails ==
    {<<>>} \cup {<<"/">> \o d : d \in DenomTexts}
           \cup {<<"/">> \o d \o <<"/">> \o e :
                     d \in {t \in DenomTexts : Len(t) <= 2}, e \in {<<>>, <<"1", "0">>}}

QuoteStyles == {"none", "single", "double", "open", "mixed"}

Quoted(style, s) ==
    CASE style = "none"   -> s
      [] style = "single" -> <<"'">> \o s \o <<"'">>
      [] style = "double" -> <<"\"">> \o s \o <<"\"">>
      [] style = "open"   -> <<"'">> \o s
      [] style = "mixed"  -> <<"\"">> \o s \o <<"'">>

DilutionTexts ==
    {Quoted(q, n \o t) : q \in QuoteStyles, n \in Numerators, t \in RatioTails}

InitDilution ==
    /\ dilution \in DilutionTexts
    /\ magnitude = [exc |-> "pending", mag |-> 0]
    /\ IdleBmc /\ IdleLoad /\ IdleCache /\ IdleMol /\ IdleOut

\* One call of dilution2magnitude on the chosen text.
Dilution2Magnitude ==
    /\ magnitude.exc = "pending"
    /\ magnitude' = dilution2magnitude(dilution)
    /\ UNCHANGED <<dilution, bmcVars, loadVars, cacheVars, molVars, outVars>>

NextDilution == Dilution2Magnitude

SpecDilution == InitDilution /\ [][NextDilution]_vars

-----------------------------------------------------------------------------
(***************************************************************************)
(* format_bmc_data (lines 25-99), as load_bmc_perceptual_data calls it:    *)
(* only_dream_subjects, only_dream_descriptors and only_dream_molecules    *)
(* all True.  A raw row is its CID cell, its 'Odor dilution' cell and its  *)
(* 'Subject # (DREAM challenge)' cell (0 for an empty cell, as fillna(0)   *)
(* makes it); the descriptor columns ride along and are not modelled.      *)
(***************************************************************************)
CIDCells == {"3796-70-1", "1549778", "2"}

\* Lines 62-65: the two CAS numbers replaced by their CIDs, then int().
FixCID(cell) ==
    CASE cell = "3796-70-1" -> 1549778
      [] cell = "109-19-0"  -> 8038
      [] cell = "1549778"   -> 1549778
      [] cell = "8038"      -> 8038
      [] cell = "2"         -> 2

\* Line 69: get_CIDs(['training', 'leaderboard', 'testset']) of the run.
dream_CIDs == {1549778, 8038}

BmcDilutions ==
    { <<"1", "/", "1", "0">>,
      <<"1", "/", "1", ",", "0", "0", "0">>,
      <<"1", "/", "1", "0", "0", "0">> }

BmcRows == [CID : CIDCells, Dilution : BmcDilutions, Subject : {0, 1}]

\* Lines 49-51, 62-71, 80: the rows of DREAM subjects and DREAM molecules,
\* the CID fixed and the dilution turned into its magnitude.
BmcKept(frame) ==
    LET fixed == [i \in 1..Len(frame) |->
                    [CID |-> FixCID(frame[i].CID),
                     Dilution |-> dilution2magnitude(frame[i].Dilution).mag,
                     Subject |-> frame[i].Subject]]
        keep(r) == r.Subject > 0 /\ r.CID \in dream_CIDs
    IN SelectSeq(fixed, keep)

\* Index.duplicated(keep='last'): all but the last occurrence flagged.
Duplicated_KeepLast(index) ==
    [i \in 1..Len(index) |->
        IF \E j \in (i + 1)..Len(index) : index[j] = index[i] THEN 1 ELSE 0]

\* Line 87: df.index.duplicated().astype(int): 1 for every entry that an
\* earlier entry of the index equals, 0 otherwise.
Duplicated(index) ==
    [i \in 1..Len(index) |->
        IF \E j \in 1..(i - 1) : index[j] = index[i] THEN 1 ELSE 0]

\* Lines 83-89: the frame indexed by (CID, Dilution, Replicate, Subject).
BmcIndexed(frame) ==
    LET kept == BmcKept(frame)
        index == [i \in 1..Len(kept) |->
                     <<kept[i].CID, kept[i].Dilution, kept[i].Subject>>]
        Replicate == Duplicated(index)
    IN [i \in 1..Len(kept) |->
           [CID |-> kept[i].CID, Dilution |-> kept[i].Dilution,
            Replicate |-> Replicate[i], Subject |-> kept[i].Subject]]

InitBmc ==
    /\ df \in UNION {[1..n -> BmcRows] : n \in 0..MaxBmcRows}
    /\ bmc = [stage |-> "raw", frame |-> <<>>, exc |-> "none"]
    /\ IdleDil /\ IdleLoad /\ IdleCache /\ IdleMol /\ IdleOut

\* Lines 31-89: filter, normalise, index and flag the replicates.
IdentifyReplicates ==
    /\ bmc.stage = "raw"
    /\ bmc' = [stage |-> "indexed", frame |-> BmcIndexed(df), exc |-> "none"]
    /\ UNCHANGED <<df, dilVars, loadVars, cacheVars, molVars, outVars>>

\* Lines 90-99: the assertion that the index now has no duplicates, then
\* the pivot (which keeps the index entries).
Reshape ==
    /\ bmc.stage = "indexed"
    /\ bmc' = [bmc EXCEPT !.stage = "done",
                          !.exc = IF HasDuplicates(bmc.frame)
                                  THEN "AssertionError" ELSE "none"]
    /\ UNCHANGED <<df, dilVars, loadVars, cacheVars, molVars, outVars>>

NextBmc == IdentifyReplicates \/ Reshape

SpecBmc == InitBmc /\ [][NextBmc]_vars

-----------------------------------------------------------------------------
(***************************************************************************)
(* load_perceptual_data (lines 102-161) and format_perceptual_data (lines  *)
(* 164-196).  A line of a perceptual file is its compound id, its          *)
(* replicate marker, its high/low label, its dilution text, its subject    *)
(* and its descriptor values (column 1 is the intensity); the odor name    *)
(* goes with the compound id and is left out.  A value is the text of its  *)
(* cell, "NaN" for a missing one.                                          *)
(***************************************************************************)
NaN == "NaN"

D10     == <<"'", "1", "/", "1", "0", "'">>
D1000   == <<"'", "1", "/", "1", ",", "0", "0", "0", "'">>
D100000 == <<"'", "1", "/", "1", "0", "0", ",", "0", "0", "0", "'">>

FileDilutions == {D10, D1000, D100000}
FileCIDs == {1, 2}
\* The subjects of the study: 49 in the data, and line 189 needs a file to
\* show every one of them.
Subjects == {1}

\* The values of a full line: column j holds the text of the number j.
FullValues == [j \in 1..NumDescriptors |-> ToString(j)]

FileLines ==
    [CID : FileCIDs, Replicate : {"replicate", ""}, Intensity : {"high", "low"},
     Dilution : FileDilutions, Subject : Subjects, values : {FullValues}]

Files(n) == UNION {[1..m -> FileLines] : m \in 0..n}

Kinds == {"training", "training-norep", "replicated", "leaderboard", "testset"}

\* Lines 107-114: the file a kind reads.
kind2(kind_) ==
    CASE kind_ \in {"training", "training-norep", "replicated"} -> "TrainSet"
      [] kind_ = "leaderboard" -> "LeaderboardSet"
      [] kind_ = "testset" -> "TestSet"

\* Lines 125-131: the replicate marker coerced to 1 or 0 (the cells are
\* already stripped and the numbers parsed in this model).
Coerce(line) == [line EXCEPT !.Replicate = IF line.Replicate = "replicate" THEN 1 ELSE 0]

\* dilution2magnitude tabulated over the dilutions of the files tried.
MagnitudeOf == [d \in FileDilutions |-> dilution2magnitude(d).mag] @@ <<>>

Magnitude(line) == MagnitudeOf[line.Dilution]

\* ExpandAt with line.copy() forgotten: both appended rows are the one
\* list, in its final state.
ExpandAt_NoCopy(kind_, line, with_replicates, mag) ==
    CASE kind_ = "training-norep" ->
              IF <<line.CID, mag>> \notin with_replicates THEN <<line>> ELSE <<>>
      [] kind_ = "replicated" ->
              IF <<line.CID, mag>> \in with_replicates THEN <<line>> ELSE <<>>
      [] OTHER ->
              IF kind_ = "leaderboard" \/ (kind_ = "testset" /\ mag # 0 - 3)
              THEN LET final == [line EXCEPT
                                    !.values = [j \in 1..NumDescriptors |->
                                                   IF j = 1 THEN line.values[1] ELSE NaN],
                                    !.Dilution = D1000]
                   IN <<final, final>>
              ELSE <<line>>

\* Lines 132-153: the rows appended for a (coerced) line whose dilution has
\* the magnitude mag (line 132).
ExpandAt(kind_, line, with_replicates, mag) ==
    CASE kind_ = "training-norep" ->
              IF <<line.CID, mag>> \notin with_replicates THEN <<line>> ELSE <<>>
      [] kind_ = "replicated" ->
              IF <<line.CID, mag>> \in with_replicates THEN <<line>> ELSE <<>>
      [] OTHER ->
              IF kind_ = "leaderboard" \/ (kind_ = "testset" /\ mag # 0 - 3)
              THEN LET rel_intensity == IF line.Intensity = "high" THEN "low" ELSE "high"
                       \* lines 143-146: the copy appended first
                       copy == [line EXCEPT !.Intensity = rel_intensity,
                                            !.values[1] = NaN]
                       \* lines 147-151: the line itself, appended second
                       rest == [line EXCEPT
                                   !.Intensity = IF rel_intensity = "high"
                                                 THEN "low" ELSE "high",
                                   !.values = [j \in 1..NumDescriptors |->
                                                  IF j = 1 THEN line.values[1] ELSE NaN],
                                   !.Dilution = D1000]
                   IN <<copy, rest>>
              ELSE <<line>>

\* Lines 130-153: the rows one (coerced) line appends to data.
ExpandLine(kind_, line, with_replicates) ==
    ExpandAt(kind_, line, with_replicates, Magnitude(line))

RECURSIVE ReadLines(_, _, _)
\* Lines 121-153: the loop over the data lines of the file.
ReadLines(kind_, file, with_replicates) ==
    IF file = <<>> THEN <<>>
    ELSE ExpandLine(kind_, Coerce(Head(file)), with_replicates)
             \o ReadLines(kind_, Tail(file), with_replicates)

\* Lexicographic order on tuples of integers of one length.
RECURSIVE TupleLess(_, _)
TupleLess(a, b) ==
    /\ a # <<>>
    /\ \/ Head(a) < Head(b)
       \/ Head(a) = Head(b) /\ TupleLess(Tail(a), Tail(b))

RECURSIVE SortedSeq(_)
\* The members of a set of tuples in ascending order.
SortedSeq(S) ==
    IF S = {} THEN <<>>
    ELSE LET least == CHOOSE x \in S : \A y \in S \ {x} : TupleLess(x, y)
         IN <<least>> \o SortedSeq(S \ {least})

\* Lines 170-172: the index (CID, Dilution, Replicate, Subject) of the rows.
IndexOf(data_) ==
    [i \in 1..Len(data_) |->
        <<data_[i].CID, Magnitude(data_[i]), data_[i].Replicate, data_[i].Subject>>]

\* Lines 173-195: the frame of the rows data_ indexed by index, its row
\* labels rows: descriptor-major, each descriptor's rows sorted by (CID,
\* Dilution, Replicate), one cell per subject.
Frame(data_, index, rows) ==
    [n \in 1..(NumDescriptors * Len(rows)) |->
        [Descriptor |-> ((n - 1) \div Len(rows)) + 1,
         CID |-> rows[((n - 1) % Len(rows)) + 1][1],
         Dilution |-> rows[((n - 1) % Len(rows)) + 1][2],
         Replicate |-> rows[((n - 1) % Len(rows)) + 1][3],
         Subject |-> [subject \in Subjects |->
             data_[CHOOSE i \in 1..Len(data_) :
                      index[i] = rows[((n - 1) % Len(rows)) + 1] \o <<subject>>]
                 .values[((n - 1) \div Len(rows)) + 1]]]]

\* Lines 173-195 on the rows data_ with the index index.  unstack (line 173)
\* raises on a duplicate index entry, and the column labels of line 189 fit
\* only a frame with every subject.
Unstack(data_, index) ==
    IF HasDuplicates(index) \/ {data_[i].Subject : i \in 1..Len(data_)} # Subjects
    THEN [exc |-> "ValueError", frame |-> <<>>]
    ELSE [exc |-> "none",
          frame |-> Frame(data_, index,
                          SortedSeq({<<k[1], k[2], k[3]>> : k \in Range(index)}))]

\* Lines 164-196.
format_perceptual_data(data_) == Unstack(data_, IndexOf(data_))

\* WithReplicates without the test x[3] == 1: the pairs of every training
\* row.
WithReplicates_All(training) ==
    {<<training[n].CID, training[n].Dilution>> : n \in 1..Len(training)}

\* Lines 116-118: the (CID, Dilution) pairs of the training rows that are
\* replicates, from the formatted training data.
WithReplicates(training) ==
    {<<training[n].CID, training[n].Dilution>> :
        n \in {m \in 1..Len(training) : training[m].Replicate = 1}}

\* Lines 116-161 for 'training-norep' and 'replicated', the training data
\* loaded: its exception, or the kind's rows formatted.
LoadWith(kind_, file, training) ==
    IF training.exc # "none" THEN training
    ELSE format_perceptual_data(
             ReadLines(kind_, file, WithReplicates(training.frame)))

\* The whole call, raw=False: the formatted frame, or the exception.
load_perceptual_data(kind_, file) ==
    IF kind_ \notin Kinds THEN [exc |-> "ValueError", frame |-> <<>>]
    ELSE IF kind_ \in {"training-norep", "replicated"}
    THEN LoadWith(kind_, file, format_perceptual_data(ReadLines("training", file, {})))
    ELSE format_perceptual_data(ReadLines(kind_, file, {}))

InitLoad ==
    /\ kind \in Kinds \cup {"other"}
    /\ lines \in Files(MaxLines)
    /\ line_num = 0
    /\ data = <<>>
    /\ perceptual = [stage |-> "start", exc |-> "none", with_replicates |-> {},
                     frame |-> <<>>]
    /\ IdleDil /\ IdleBmc /\ IdleCache /\ IdleMol /\ IdleOut

\* Lines 103-122: the kind checked, and for 'training-norep' and
\* 'replicated' the training data loaded first (which may raise).
Begin ==
    /\ perceptual.stage = "start"
    /\ IF kind \notin Kinds
       THEN perceptual' = [perceptual EXCEPT !.stage = "done", !.exc = "ValueError"]
       ELSE IF kind \in {"training-norep", "replicated"}
       THEN LET training == load_perceptual_data("training", lines)
            IN IF training.exc # "none"
               THEN perceptual' = [perceptual EXCEPT !.stage = "done",
                                                     !.exc = training.exc]
               ELSE perceptual' = [perceptual EXCEPT
                        !.stage = "reading",
                        !.with_replicates = WithReplicates(training.frame)]
       ELSE perceptual' = [perceptual EXCEPT !.stage = "reading"]
    /\ UNCHANGED <<kind, lines, line_num, data, dilVars, bmcVars, cacheVars, molVars, outVars>>

\* Lines 123-153: one data line read, coerced and appended.
ReadLine ==
    /\ perceptual.stage = "reading"
    /\ line_num < Len(lines)
    /\ line_num' = line_num + 1
    /\ data' = data \o ExpandLine(kind, Coerce(lines[line_num + 1]),
                                  perceptual.with_replicates)
    /\ UNCHANGED <<kind, lines, perceptual, dilVars, bmcVars, cacheVars, molVars, outVars>>

\* Lines 158-161: the rows framed and formatted.
Format ==
    /\ perceptual.stage = "reading"
    /\ line_num = Len(lines)
    /\ LET formatted == format_perceptual_data(data)
       IN perceptual' = [perceptual EXCEPT !.stage = "done",
                                           !.exc = formatted.exc,
                                           !.frame = formatted.frame]
    /\ UNCHANGED <<kind, lines, line_num, data, dilVars, bmcVars, cacheVars, molVars, outVars>>

NextLoad == Begin \/ ReadLine \/ Format

SpecLoad == InitLoad /\ [][NextLoad]_vars

-----------------------------------------------------------------------------
(***************************************************************************)
(* get_CID_dilutions (lines 345-410) and cache_cid_dilutions (lines        *)
(* 587-595), for a single kind.  An index is a sequence of (CID, Dilution) *)
(* pairs; a cache file is absent or holds the rows written to it.          *)
(***************************************************************************)
TargetDilutions == {"None", "high", "low"}

RECURSIVE Insert(_, _)
\* x put into an ascending sequence, before the first entry greater than it.
Insert(x, s) ==
    IF s = <<>> THEN <<x>>
    ELSE IF TupleLess(x, Head(s)) THEN <<x>> \o s
         ELSE <<Head(s)>> \o Insert(x, Tail(s))

RECURSIVE Sorted(_)
\* sorted(...) / sort_values(): ascending, equal entries kept.
Sorted(s) == IF s = <<>> THEN <<>> ELSE Insert(Head(s), Sorted(Tail(s)))

\* SortedUnique without the set(): the pairs sorted, repeats kept.
SortedUnique_NoSet(data_) == Sorted(data_)

\* Lines 396 and 405: sorted(list(set(data))).
SortedUnique(data_) == SortedSeq(Range(data_))

\* Lines 377-395: the pairs one row of the formatted frame appends.
PairsOfRow(kind_, target_dilution, frame, row) ==
    LET replicate == row.Replicate
        CID == row.CID
        dilution_ == row.Dilution
        dilutions == {frame[n].Dilution :
                         n \in {m \in 1..Len(frame) :
                                   frame[m].Descriptor = 1 /\ frame[m].CID = CID}}
        high == \A d \in dilutions : d <= dilution_
        skipped == \/ target_dilution = "high" /\ ~high
                   \/ target_dilution = "low" /\ high
    IN IF (replicate = 1 \/ kind_ # "replicated") /\ ~skipped
       THEN <<<<CID, dilution_>>>>
                \o (IF kind_ \in {"leaderboard", "testset"}
                    THEN <<<<CID, 0 - 3>>>> ELSE <<>>)
       ELSE <<>>

RECURSIVE Collect(_, _, _, _)
\* Lines 374-395: the loop over the first n rows of the frame.
Collect(kind_, target_dilution, frame, n) ==
    IF n = 0 THEN <<>>
    ELSE Collect(kind_, target_dilution, frame, n - 1)
             \o PairsOfRow(kind_, target_dilution, frame, frame[n])

\* Lines 374-396 and 405-409 on the loaded data: its exception, or the pairs
\* of its rows, sorted, each once.
IndexOfData(kind_, target_dilution, perceptual_data) ==
    IF perceptual_data.exc # "none"
    THEN [exc |-> perceptual_data.exc, index |-> <<>>]
    ELSE [exc |-> "none",
          index |-> SortedUnique(Collect(kind_, target_dilution,
                                         perceptual_data.frame,
                                         Len(perceptual_data.frame)))]

\* Lines 373-396 and 405-409 for 'training', 'replicated', 'leaderboard' and
\* 'testset': the index derived from the raw file, or the exception.
Derived(kind_, target_dilution, raw) ==
    IndexOfData(kind_, target_dilution,
                load_perceptual_data(kind_, raw[kind2(kind_)]))

\* Difference with the replicated pairs added instead of taken away.
Difference_Union(training, replicated) == training \cup replicated

\* Line 404: training.difference(replicated).
Difference(training, replicated) == training \ replicated

\* Lines 398-405: the 'training-norep' index from the two indexes it is
\* computed from, or the exception of the first of them that raised.
NoRep(training, replicated) ==
    IF training.exc # "none" THEN training
    ELSE IF replicated.exc # "none" THEN replicated
    ELSE [exc |-> "none",
          index |-> SortedSeq(Difference(Range(training.index),
                                         Range(replicated.index)))]

\* Lines 372-409, cached=False, on given raw files: the index of a kind, or
\* the exception.
UncachedOn(kind_, target_dilution, raw) ==
    IF kind_ = "training-norep"
    THEN NoRep(Derived("training", target_dilution, raw),
               Derived("replicated", target_dilution, raw))
    ELSE Derived(kind_, target_dilution, raw)

\* The training lines tried: molecule 1 at two dilutions, the others at one.
TrainLines ==
    {l \in [CID : FileCIDs, Replicate : {"replicate", ""}, Intensity : {"high"},
            Dilution : {D10, D1000}, Subject : Subjects, values : {FullValues}] :
        l.CID = 1 \/ l.Dilution = D10}

\* The training files tried: up to MaxTrainLines lines.
TrainFiles == UNION {[1..n -> TrainLines] : n \in 0..MaxTrainLines}

\* The leaderboard and testset files tried: empty, or one line.
HeldFiles ==
    {<<>>} \cup
    {<<l>> : l \in [CID : {1}, Replicate : {""}, Intensity : {"high"},
                    Dilution : {D10, D1000}, Subject : Subjects,
                    values : {FullValues}]}

Absent == [present |-> FALSE, rows |-> <<>>]

CacheOrder == <<"training", "leaderboard", "testset", "training-norep", "replicated">>

\* Line 594: to_frame(index=False), one row of named columns per pair.
ToFrame(index) ==
    [i \in 1..Len(index) |-> [CID |-> index[i][1], Dilution |-> index[i][2]]]

\* Lines 371 and 407-409: the rows of the file read back as pairs and
\* sorted (MultiIndex.from_frame(data).sort_values()).
FromFrame(rows) == Sorted([i \in 1..Len(rows) |-> <<rows[i].CID, rows[i].Dilution>>])

\* Write with the new rows appended to the file instead of replacing it.
Write_Append(file, index) == [present |-> TRUE, rows |-> file.rows \o ToFrame(index)]

\* Lines 593-595: to_csv replaces the file by the rows of the index.
Write(file, index) == [present |-> TRUE, rows |-> ToFrame(index)]

\* UncachedOn tabulated over the files tried (a kind reads one file only),
\* so that each index is derived once.
UncachedTable ==
    [kind_ \in Kinds |->
        [target_dilution \in TargetDilutions |->
            [file \in TrainFiles \cup HeldFiles |->
                UncachedOn(kind_, target_dilution,
                           [TrainSet |-> file, LeaderboardSet |-> file,
                            TestSet |-> file])] @@ <<>>] @@ <<>>] @@ <<>>

\* Lines 372-409, cached=False: the index of a kind, or the exception.
Uncached(kind_, target_dilution, raw) ==
    UncachedTable[kind_][target_dilution][raw[kind2(kind_)]]

\* Lines 590-595 for one kind: CID_dilutions is what the uncached call did.
\* Its exception ends the pass; its index replaces the kind's file.
Store(st, kind_, CID_dilutions) ==
    IF CID_dilutions.exc # "none"
    THEN [st EXCEPT !.exc = CID_dilutions.exc,
                    !.scanned = @ \cup {kind2(kind_)}]
    ELSE [st EXCEPT !.cache[kind_] = Write(@, CID_dilutions.index),
                    !.scanned = @ \cup {kind2(kind_)},
                    !.wrote = @ \cup {kind_}]

RECURSIVE CacheFrom(_, _, _)
\* Lines 588-595 from the i-th kind on; st is the cache so far with the
\* raw files scanned and the cache files written.  An exception ends the
\* loop and leaves the files written before it.
CacheFrom(i, raw, st) ==
    IF i > Len(CacheOrder) \/ st.exc # "none" THEN st
    ELSE CacheFrom(i + 1, raw,
                   Store(st, CacheOrder[i], Uncached(CacheOrder[i], "None", raw)))

\* cache_cid_dilutions (lines 587-595).
cache_cid_dilutions(raw, cache_) ==
    CacheFrom(1, raw, [cache |-> cache_, exc |-> "none", scanned |-> {}, wrote |-> {}])

\* Line 367 with the existence test dropped: the cache is rebuilt by every
\* cached call.
IsFile_Never(file) == FALSE

\* Line 367: os.path.isfile(file_path).
IsFile(file) == file.present

\* Lines 371 and 407-410: the kind's file read after the pass (if any), or
\* the exception of the pass.
ReadCached(kind_, pass) ==
    IF pass.exc # "none"
    THEN pass @@ [index |-> <<>>]
    ELSE pass @@ [index |-> FromFrame(pass.cache[kind_].rows)]

\* Lines 372-410: what an uncached call leaves and returns.
ReturnUncached(kind_, cache_, result) ==
    [cache |-> cache_, exc |-> result.exc, index |-> result.index,
     scanned |-> {kind2(kind_)}, wrote |-> {}]

\* get_CID_dilutions (lines 358-410) for one kind: what it returns (or the
\* exception), the cache it leaves, the raw files it scanned and the cache
\* files it wrote.
get_CID_dilutions(kind_, target_dilution, cached, raw, cache_) ==
    IF cached
    THEN ReadCached(kind_,
             IF IsFile(cache_[kind_])
             THEN [cache |-> cache_, exc |-> "none", scanned |-> {}, wrote |-> {}]
             ELSE cache_cid_dilutions(raw, cache_))
    ELSE ReturnUncached(kind_, cache_, Uncached(kind_, target_dilution, raw))

NoCall == [op |-> "none", kind |-> "", target |-> "None", cached |-> FALSE,
           hit |-> FALSE, exc |-> "none", index |-> <<>>, scanned |-> {},
           wrote |-> {}, passes |-> 0]

InitCache ==
    /\ raw_files \in [TrainSet : TrainFiles,
                      LeaderboardSet : HeldFiles,
                      TestSet : HeldFiles]
    /\ cache = [k \in Kinds |-> Absent]
    /\ last = NoCall
    /\ IdleDil /\ IdleBmc /\ IdleLoad /\ IdleMol /\ IdleOut

\* The state after a call of get_CID_dilutions that did what call says.
GetReturns(kind_, target_dilution, cached, call) ==
    /\ cache' = call.cache
    /\ last' = [op |-> "get_CID_dilutions", kind |-> kind_,
                target |-> target_dilution, cached |-> cached,
                hit |-> cache[kind_].present, exc |-> call.exc,
                index |-> call.index, scanned |-> call.scanned,
                wrote |-> call.wrote, passes |-> 0]

\* A call get_CID_dilutions(kind, target_dilution, cached).  The cached
\* branch (lines 365-371) never reads target_dilution, so cached calls are
\* tried with the default only.
GetCIDDilutions ==
    /\ \E kind_ \in Kinds, cached \in BOOLEAN :
         \E target_dilution \in IF cached THEN {"None"} ELSE TargetDilutions :
            GetReturns(kind_, target_dilution, cached,
                       get_CID_dilutions(kind_, target_dilution, cached,
                                         raw_files, cache))
    /\ UNCHANGED <<raw_files, dilVars, bmcVars, loadVars, molVars, outVars>>

\* The state after a run of cache_cid_dilutions that did what call says.
PassReturns(call) ==
    /\ cache' = call.cache
    /\ last' = [NoCall EXCEPT !.op = "cache_cid_dilutions",
                              !.exc = call.exc,
                              !.scanned = call.scanned,
                              !.wrote = call.wrote,
                              !.passes = last.passes + 1]

\* A call cache_cid_dilutions().
CacheCidDilutions ==
    /\ last.passes < MaxPasses
    /\ PassReturns(cache_cid_dilutions(raw_files, cache))
    /\ UNCHANGED <<raw_files, dilVars, bmcVars, loadVars, molVars, outVars>>

NextCache == GetCIDDilutions \/ CacheCidDilutions

SpecCache == InitCache /\ [][NextCache]_vars

-----------------------------------------------------------------------------
(***************************************************************************)
(* get_molecular_data (lines 298-342).  A feature file is the set of       *)
(* compound ids it has a row for; a frame maps the compound ids of its     *)
(* index to the row's features (row order is left out).  df.loc[CIDs] is   *)
(* taken as raising KeyError on a label that is not in the index, as       *)
(* pandas does from 1.0 on.                                                *)
(***************************************************************************)
SourceNames == {"dragon", "morgan", "mordred", "unknown"}

MolCIDs == {1, 2}

\* The features a source's file holds for a compound id.
Features(source, CID) == <<source, CID>>

\* read_csv(..., index_col=0) / set_index('CID'): the whole file as a frame.
ReadTable(source) == [CID \in tables[source] |-> Features(source, CID)]

\* Lines 305, 309 and 314: df.loc[CIDs].
Loc(frame, CIDs_) ==
    IF CIDs_ \subseteq DOMAIN frame
    THEN [exc |-> "none", df |-> [CID \in CIDs_ |-> frame[CID]]]
    ELSE [exc |-> "KeyError", df |-> <<>>]

\* Lines 301-334: the frame built for one source, or the exception.
SourceFrame(source) ==
    CASE source \in {"dragon", "morgan"} -> Loc(ReadTable(source), CIDs)
      [] source = "mordred" -> [exc |-> "none", df |-> ReadTable(source)]
      [] OTHER -> [exc |-> "Exception", df |-> <<>>]

\* Line 338: pd.concat(dfs, axis=1), the outer join of the frames on their
\* index, a missing row filled with NaN; no frame at all is a ValueError.
Concat(dfs_) ==
    IF DOMAIN dfs_ = {} THEN [exc |-> "ValueError", df |-> <<>>]
    ELSE [exc |-> "none",
          df |-> [CID \in UNION {DOMAIN dfs_[source] : source \in DOMAIN dfs_} |->
                     [source \in DOMAIN dfs_ |->
                         IF CID \in DOMAIN dfs_[source] THEN dfs_[source][CID]
                         ELSE NaN]]]

InitMolecular ==
    /\ sources \in UNION {[1..n -> SourceNames] : n \in 0..MaxSources}
    /\ CIDs \in SUBSET MolCIDs
    /\ tables \in [SourceNames \ {"unknown"} -> SUBSET MolCIDs]
    /\ dfs = <<>>
    /\ molecular = [pos |-> 0, done |-> FALSE, exc |-> "none", df |-> <<>>]
    /\ IdleDil /\ IdleBmc /\ IdleLoad /\ IdleCache /\ IdleOut

\* Lines 300-337: one turn of the loop over the sources.
LoadSource ==
    /\ ~molecular.done
    /\ molecular.pos < Len(sources)
    /\ LET source == sources[molecular.pos + 1]
           built == SourceFrame(source)
       IN IF built.exc # "none"
          THEN /\ molecular' = [molecular EXCEPT !.done = TRUE, !.exc = built.exc]
               /\ dfs' = dfs
          ELSE /\ molecular' = [molecular EXCEPT !.pos = @ + 1]
               /\ dfs' = [s \in DOMAIN dfs \cup {source} |->
                             IF s = source THEN built.df ELSE dfs[s]]
    /\ UNCHANGED <<sources, CIDs, tables, dilVars, bmcVars, loadVars, cacheVars, outVars>>

\* Lines 338-342: the frames joined and returned.
ConcatFrames ==
    /\ ~molecular.done
    /\ molecular.pos = Len(sources)
    /\ LET joined == Concat(dfs)
       IN molecular' = [molecular EXCEPT !.done = TRUE, !.exc = joined.exc,
                                         !.df = joined.df]
    /\ UNCHANGED <<sources, CIDs, tables, dfs, dilVars, bmcVars, loadVars, cacheVars, outVars>>

NextMolecular == LoadSource \/ ConcatFrames

SpecMolecular == InitMolecular /\ [][NextMolecular]_vars

-----------------------------------------------------------------------------
(***************************************************************************)
(* write_prediction_files (lines 504-528) with get_CIDs (lines 413-418)    *)
(* and get_descriptors (lines 199-205).  A prediction is an integer number *)
(* of ten-thousandths, so that a value of three decimals is a multiple of  *)
(* ten.  The file is its header row and its data rows.                     *)
(***************************************************************************)
\* The descriptor columns of the header of TrainSet.txt (headers[6:]), in
\* the file's order; the first two name two scales each.
HeaderTexts ==
    << <<"I", "N", "/", "S", "T">>, <<"V", "A", "/", "P", "L">>,
       <<"B", "A">>, <<"S", "W">>, <<"F", "R">> >>

\* Lines 200-201: get_descriptors().
descriptors_long == [col \in 1..NumDescriptors |-> HeaderTexts[col]]

\* str.lower() on one character.
Lower(ch) ==
    LET upper == <<"A", "B", "F", "I", "L", "N", "P", "R", "S", "T", "V", "W">>
        lower == <<"a", "b", "f", "i", "l", "n", "p", "r", "s", "t", "v", "w">>
    IN IF \E i \in 1..Len(upper) : upper[i] = ch
       THEN lower[CHOOSE i \in 1..Len(upper) : upper[i] = ch]
       ELSE ch

\* Lines 202-204: get_descriptors(format=True).  The second column (col == 1
\* in the code's counting from 0) takes the piece after the '/', the others
\* the piece before it; then the first character and the rest in lower case.
descriptors_short ==
    [col \in 1..NumDescriptors |->
        LET piece == Split(descriptors_long[col], "/")[IF col = 2 THEN 2 ELSE 1]
        IN <<piece[1]>> \o [i \in 1..(Len(piece) - 1) |-> Lower(piece[i + 1])]]

RECURSIVE Unique(_)
\* Index.unique(): the first occurrence of each entry, in order.
Unique(s) ==
    IF s = <<>> THEN <<>>
    ELSE LET init == Unique(SubSeq(s, 1, Len(s) - 1))
         IN IF \E i \in 1..Len(init) : init[i] = s[Len(s)]
            THEN init ELSE Append(init, s[Len(s)])

\* Lines 413-418: get_CIDs, from the index get_CID_dilutions returned.
get_CIDs(index) ==
    LET level == Unique(Sorted([i \in 1..Len(index) |-> <<index[i][1]>>]))
    IN [i \in 1..Len(level) |-> level[i][1]]

\* round(3) cutting the fourth decimal off instead of rounding.
Round3_Truncate(value) == 10 * (value \div 10)

\* .round(3): to the nearest multiple of ten ten-thousandths, a tie to the
\* even one (numpy rounds half to even).
Round3(value) ==
    IF value % 10 < 5 \/ (value % 10 = 5 /\ (value \div 10) % 2 = 0)
    THEN 10 * (value \div 10)
    ELSE 10 * (value \div 10 + 1)

\* The keys of Y: the subjects (subchallenge 1), 'mean' and 'std'
\* (subchallenge 2).
YKeys == {ToString(subject) : subject \in 1..NumSubjects} \cup {"mean", "std"}

PredCIDs == {1, 2, 3}

\* The predictions tried: a column per short descriptor name, every column
\* with the compound ids of have, the values spread over 0..MaxValue from a
\* seed.
Predictions(seed, have) ==
    [key \in YKeys |->
        [d_short \in Range(descriptors_short) |->
            [CID \in have |->
                (seed + 11 * CID
                      + 7 * (CHOOSE col \in 1..NumDescriptors :
                                descriptors_short[col] = d_short)
                      + (CASE key = "mean" -> 3 [] key = "std" -> 5
                           [] OTHER -> 13 * (CHOOSE subject \in 1..NumSubjects :
                                                ToString(subject) = key)))
                    % (MaxValue + 1)]]]

\* Y[key][d_short].loc[CID] (lines 516, 525, 526).
Lookup(key, d_short, CID) ==
    IF d_short \in DOMAIN Y[key] /\ CID \in DOMAIN Y[key][d_short]
    THEN [exc |-> "none", value |-> Y[key][d_short][CID]]
    ELSE [exc |-> "KeyError", value |-> 0]

\* Lines 513-517 and 523-527: the row written at a loop position, or the
\* exception of the lookup.
RowAt(subject, col, CID) ==
    IF subchallenge = 1
    THEN LET value == Lookup(ToString(subject), descriptors_short[col], CID)
         IN [exc |-> value.exc,
             row |-> [oID |-> CID, individual |-> subject,
                      descriptor |-> descriptors_long[col],
                      value |-> Round3(value.value)]]
    ELSE LET value == Lookup("mean", descriptors_short[col], CID)
             std == Lookup("std", descriptors_short[col], CID)
         IN [exc |-> IF value.exc # "none" THEN value.exc ELSE std.exc,
             row |-> [oID |-> CID, descriptor |-> descriptors_long[col],
                      value |-> Round3(Round3(value.value)),
                      std |-> Round3(std.value)]]

\* The kinds' indexes tried: (compound id, dilution) pairs, ascending.
KindIndexes == {SortedSeq(S) : S \in SUBSET (PredCIDs \X {0 - 3, 0 - 1})}

InitWrite ==
    /\ \E seed \in {0, 4, 8}, have \in {PredCIDs, {1, 2}} :
          Y = Predictions(seed, have)
    /\ subchallenge \in {1, 2, 3}
    /\ kind_index \in KindIndexes
    /\ writer = [stage |-> "opened", subject |-> 1, col |-> 1, i |-> 1,
                 header |-> <<>>, rows |-> <<>>, closed |-> FALSE,
                 exc |-> "none"]
    /\ IdleDil /\ IdleBmc /\ IdleLoad /\ IdleCache /\ IdleMol

\* Lines 505-512 and 520-522: the file opened and the header row written.
\* A subchallenge other than 1 or 2 writes nothing and leaves the file open.
WriteHeader ==
    /\ writer.stage = "opened"
    /\ writer' =
          CASE subchallenge = 1 ->
                 [writer EXCEPT !.stage = "rows",
                     !.header = <<"#oID", "individual", "descriptor", "value">>]
            [] subchallenge = 2 ->
                 [writer EXCEPT !.stage = "rows",
                     !.header = <<"#oID", "descriptor", "value", "std">>]
            [] OTHER -> [writer EXCEPT !.stage = "done"]
    /\ UNCHANGED <<Y, subchallenge, kind_index, dilVars, bmcVars, loadVars,
                   cacheVars, molVars>>

\* The turns of the outermost loop: the subjects (line 513), or one turn.
OuterTurns == IF subchallenge = 1 THEN NumSubjects ELSE 1

\* The loops of lines 513-515 and 523-524 have no turn left.
Exhausted ==
    \/ writer.subject > OuterTurns
    \/ NumDescriptors = 0
    \/ get_CIDs(kind_index) = <<>>

\* Lines 513-517 and 523-527: one turn of the innermost loop.
WriteRow ==
    /\ writer.stage = "rows"
    /\ ~Exhausted
    /\ LET CIDs_ == get_CIDs(kind_index)
           written == RowAt(writer.subject, writer.col, CIDs_[writer.i])
       IN IF written.exc # "none"
          THEN writer' = [writer EXCEPT !.stage = "done", !.exc = written.exc]
          ELSE writer' =
                  [writer EXCEPT
                      !.rows = Append(@, written.row),
                      !.i = IF @ < Len(CIDs_) THEN @ + 1 ELSE 1,
                      !.col = IF writer.i < Len(CIDs_) THEN @
                              ELSE IF @ < NumDescriptors THEN @ + 1 ELSE 1,
                      !.subject = IF writer.i = Len(CIDs_)
                                     /\ writer.col = NumDescriptors
                                  THEN @ + 1 ELSE @]
    /\ UNCHANGED <<Y, subchallenge, kind_index, dilVars, bmcVars, loadVars,
                   cacheVars, molVars>>

\* Lines 518 and 528: f.close() after the loops.
Close ==
    /\ writer.stage = "rows"
    /\ Exhausted
    /\ writer' = [writer EXCEPT !.stage = "done", !.closed = TRUE]
    /\ UNCHANGED <<Y, subchallenge, kind_index, dilVars, bmcVars, loadVars,
                   cacheVars, molVars>>

NextWrite == WriteHeader \/ WriteRow \/ Close

SpecWrite == InitWrite /\ [][NextWrite]_vars

-----------------------------------------------------------------------------
(***************************************************************************)
(* Properties of dilution2magnitude, checked under SpecDilution.           *)
(***************************************************************************)
RECURSIVE Zeros(_)
Zeros(k) == IF k = 0 THEN <<>> ELSE <<"0">> \o Zeros(k - 1)

\* 10^k written out: a 1 and k zeros.
Plain(k) == <<"1">> \o Zeros(k)

RECURSIVE Thousands(_)
\* A digit string with a comma before every group of three digits.
Thousands(s) ==
    IF Len(s) <= 3 THEN s
    ELSE Thousands(SubSeq(s, 1, Len(s) - 3)) \o <<",">> \o SubSeq(s, Len(s) - 2, Len(s))

QuotePairs == {"none", "single", "double"}

\* Every surface encoding of the ratio 1/10^k: quoted or not, with or
\* without thousands separators.
Encodings(k) ==
    {Quoted(q, <<"1", "/">> \o d) : q \in QuotePairs, d \in {Plain(k), Thousands(Plain(k))}}

\* C9: once dilution2magnitude has run on any encoding of 1/10^k (double
\* quotes, single quotes or none, with or without thousands commas), it has
\* returned the one magnitude -k = log10(1/10^k).
C9_EncodingInvariant ==
    \A k \in 0..(MaxDenomLen + 1) :
        (magnitude.exc # "pending" /\ dilution \in Encodings(k))
            => magnitude = [exc |-> "none", mag |-> 0 - k]

\* C9 witness: the call has run on the single-quoted '1/1,000' and gave -3.
C9_Witness ==
    /\ dilution = <<"'", "1", "/", "1", ",", "0", "0", "0", "'">>
    /\ magnitude = [exc |-> "none", mag |-> 0 - 3]

\* The accepted grammar: an optional pair of quotes, a numerator, one '/',
\* and a denominator of digits and commas that writes a positive number.
InGrammar(s) ==
    \E q \in QuotePairs, n \in Numerators, d \in DenomTexts :
        /\ s = Quoted(q, n \o <<"/">> \o d)
        /\ \A i \in 1..Len(d) : d[i] \in Digits \cup {","}
        /\ \E i \in 1..Len(d) : d[i] = "1"

\* C10: dilution2magnitude returns a magnitude exactly for the strings of
\* the grammar, and raises on every other string (no '/', a non-numeric
\* denominator, a second '/', quotes that do not pair).
C10_TotalOnGrammarOnly ==
    magnitude.exc # "pending" => (InGrammar(dilution) <=> magnitude.exc = "none")

-----------------------------------------------------------------------------
(***************************************************************************)
(* Properties of format_bmc_data, checked under SpecBmc.                   *)
(***************************************************************************)
\* The key of a raw row: its compound id, dilution magnitude and subject.
RawKey(r) == <<FixCID(r.CID), dilution2magnitude(r.Dilution).mag, r.Subject>>

\* The raw rows the frame keeps (a DREAM subject and a DREAM molecule).
RawKept(r) == r.Subject > 0 /\ FixCID(r.CID) \in dream_CIDs

\* The positions in df of the kept rows, in input order.
KeptPositions == SelectSeq([i \in 1..Len(df) |-> i], LAMBDA i : RawKept(df[i]))

\* C2: once the replicates are identified, every kept raw row has one
\* record; the first row of each group of rows with the same (compound id,
\* dilution, subject) has Replicate = 0 and every later row of the group has
\* Replicate = 1, so a group of two gives exactly one 0 and one 1.
C2_FirstFalseLaterTrue ==
    bmc.stage # "raw" =>
        LET pos == KeptPositions IN
        /\ Len(bmc.frame) = Len(pos)
        /\ \A n \in 1..Len(pos) :
              LET first == \A m \in 1..(n - 1) : RawKey(df[pos[m]]) # RawKey(df[pos[n]])
              IN bmc.frame[n].Replicate = (IF first THEN 0 ELSE 1)
        /\ \A n, m \in 1..Len(pos) :
              (n < m /\ RawKey(df[pos[n]]) = RawKey(df[pos[m]])
                 /\ \A o \in 1..Len(pos) :
                        (o # n /\ o # m) => RawKey(df[pos[o]]) # RawKey(df[pos[n]]))
              => bmc.frame[n].Replicate = 0 /\ bmc.frame[m].Replicate = 1

\* C2 witness: three kept rows of one key (written '1/1,000' and '1/1000',
\* under a CAS number and under the CID) flagged 0, 1, 1.
C2_Witness ==
    /\ bmc.stage # "raw"
    /\ Len(df) = 3 /\ Len(bmc.frame) = 3
    /\ df[1].CID = "3796-70-1" /\ df[2].CID = "1549778"
    /\ df[1].Dilution # df[2].Dilution
    /\ \A n \in 1..3 : RawKey(df[n]) = RawKey(df[1])
    /\ bmc.frame[1].Replicate = 0
    /\ bmc.frame[2].Replicate = 1
    /\ bmc.frame[3].Replicate = 1

-----------------------------------------------------------------------------
(***************************************************************************)
(* Properties of load_perceptual_data, checked under SpecLoad.             *)
(***************************************************************************)
\* The line being read in a step of the loop, coerced.
CurrentLine == Coerce(lines[line_num + 1])

\* The rows a step appends to data.
Appended == SubSeq(data', Len(data) + 1, Len(data'))

\* A line of the leaderboard kind, or of the testset kind off magnitude -3.
IsSplit(line) ==
    kind = "leaderboard" \/ (kind = "testset" /\ Magnitude(line) # 0 - 3)

Opposite(label) == IF label = "high" THEN "low" ELSE "high"

OnlyIntensity(line) == [j \in 1..NumDescriptors |-> IF j = 1 THEN line.values[1] ELSE NaN]
NoIntensity(line)   == [j \in 1..NumDescriptors |-> IF j = 1 THEN NaN ELSE line.values[j]]

\* C1 as stated: a split line gives exactly two rows, the intensity alone at
\* the line's own dilution under the recorded label and the other
\* descriptors at '1/1,000' under the opposite label; every other line gives
\* exactly one row, unchanged (the lines that the training-norep and
\* replicated kinds filter out are left aside here).
C1_SplitAsStated ==
    [][line_num' = line_num + 1 =>
        LET line == CurrentLine IN
        /\ SubSeq(data', 1, Len(data)) = data
        /\ IF IsSplit(line)
           THEN /\ Len(Appended) = 2
                /\ Range(Appended) =
                     { [line EXCEPT !.values = OnlyIntensity(line)],
                       [line EXCEPT !.values = NoIntensity(line),
                                    !.Intensity = Opposite(line.Intensity),
                                    !.Dilution = D1000] }
           ELSE Appended = <<line>> \/ (kind \in {"training-norep", "replicated"}
                                          /\ Appended = <<>>)]_vars

\* C1 as amended: a split line gives exactly two rows, first the other
\* descriptors (intensity missing) at the line's own dilution under the
\* opposite label, then the intensity alone at '1/1,000' under the recorded
\* label; a line of the training kind, or of the testset kind at magnitude
\* -3, gives exactly one row, unchanged; a line of the training-norep or
\* replicated kind gives that one unchanged row or, filtered out, none.
C1_SplitAmended ==
    [][line_num' = line_num + 1 =>
        LET line == CurrentLine IN
        /\ SubSeq(data', 1, Len(data)) = data
        /\ IF IsSplit(line)
           THEN Appended =
                  << [line EXCEPT !.values = NoIntensity(line),
                                  !.Intensity = Opposite(line.Intensity)],
                     [line EXCEPT !.values = OnlyIntensity(line),
                                  !.Dilution = D1000] >>
           ELSE IF kind \in {"training", "testset"}
           THEN Appended = <<line>>
           ELSE Appended \in {<<>>, <<line>>}]_vars

\* C1 witness: a testset line at '1/10' labelled high has been split: the
\* other descriptors stay at '1/10' labelled low, the intensity is at
\* '1/1,000' labelled high.
C1_Witness ==
    /\ kind = "testset" /\ line_num = 1
    /\ lines[1].Dilution = D10 /\ lines[1].Intensity = "high"
    /\ Len(data) = 2
    /\ data[1].Dilution = D10 /\ data[1].Intensity = "low"
    /\ data[1].values[1] = NaN /\ data[1].values[2] = "2"
    /\ data[2].Dilution = D1000 /\ data[2].Intensity = "high"
    /\ data[2].values[1] = "1" /\ data[2].values[2] = NaN

\* The key of a raw line: compound id, dilution magnitude, replicate flag,
\* subject.
LineKey(line) == <<line.CID, Magnitude(line), Coerce(line).Replicate, line.Subject>>

\* C3: when the file's lines have pairwise distinct keys, the rows built
\* from them (after the splitting, before the reshaping) hold each key
\* (compound id, dilution magnitude, replicate flag, subject) at most once.
C3_KeysUnique ==
    (/\ perceptual.stage \in {"reading", "done"}
     /\ line_num = Len(lines)
     /\ ~HasDuplicates([i \in 1..Len(lines) |-> LineKey(lines[i])]))
        => ~HasDuplicates(IndexOf(data))


-----------------------------------------------------------------------------
(***************************************************************************)
(* Claims about get_CID_dilutions and cache_cid_dilutions (SpecCache).     *)
(***************************************************************************)
AllKinds == {"TrainSet", "LeaderboardSet", "TestSet"}

Populated == \A k \in Kinds : cache[k].present

\* What a cached call for the kind reads from its file.
Stored(kind_) == Range(FromFrame(cache[kind_].rows))

\* The 'training-norep' pairs are the 'training' pairs that are not
\* 'replicated' pairs, when the three calls returned.
IsDifference(norep, training, replicated) ==
    (norep.exc = "none" /\ training.exc = "none" /\ replicated.exc = "none")
        => Range(norep.index) = Range(training.index) \ Range(replicated.index)

\* C4: once every cache file is written, the pairs stored for
\* 'training-norep' are the pairs stored for 'training' that are not stored
\* for 'replicated'; and for every target dilution, when the uncached calls
\* for the three kinds return, the 'training-norep' pairs are the 'training'
\* pairs that are not 'replicated' pairs.
C4_NorepIsDifference ==
    /\ Populated =>
          Stored("training-norep") = Stored("training") \ Stored("replicated")
    /\ \A t \in TargetDilutions :
          IsDifference(Uncached("training-norep", t, raw_files),
                       Uncached("training", t, raw_files),
                       Uncached("replicated", t, raw_files))

\* C4 witness: a cached call for 'training-norep' has returned a pair from a
\* populated cache whose 'replicated' file holds a pair too.
C4_Witness ==
    /\ Populated
    /\ last.op = "get_CID_dilutions" /\ last.kind = "training-norep"
    /\ last.cached /\ last.exc = "none" /\ last.index # <<>>
    /\ Stored("replicated") # {}
    /\ Stored("training") = Stored("training-norep") \cup Stored("replicated")

\* C5: the index a call of get_CID_dilutions returns, cached or not, is
\* strictly ascending: sorted, and no (compound id, dilution) pair twice.
C5_SortedNoDuplicates ==
    (last.op = "get_CID_dilutions" /\ last.exc = "none")
        => \A i \in 1..(Len(last.index) - 1) :
               TupleLess(last.index[i], last.index[i + 1])

\* C5 witness: an uncached leaderboard call on a line at '1/10' has returned
\* the pair of the line and the added (compound id, -3) pair, each once.
C5_Witness ==
    /\ last.op = "get_CID_dilutions" /\ last.kind = "leaderboard"
    /\ ~last.cached /\ last.exc = "none"
    /\ last.index = <<<<1, 0 - 3>>, <<1, 0 - 1>>>>

\* C6: a run of cache_cid_dilutions that follows a run of it leaves every
\* cache file as the first run left it, and does not raise when the first
\* run did not.
C6_SecondPassIdentical ==
    [][(last.op = "cache_cid_dilutions" /\ last'.op = "cache_cid_dilutions")
          => /\ cache' = cache
             /\ last.exc = "none" => last'.exc = "none"]_vars

\* C6 witness: two runs in a row have completed, with pairs in the files.
C6_Witness ==
    /\ last.op = "cache_cid_dilutions" /\ last.passes = 2 /\ last.exc = "none"
    /\ Populated
    /\ \A k \in Kinds : cache[k].rows # <<>>

\* C7: no step removes a cache file; a cached call whose file was absent and
\* that returns has scanned the raw files and left the file of its kind
\* written; a cached call whose file was present returns with no raw file
\* scanned and no cache file written; an uncached call writes no cache file.
C7_AbsentToPresentOnly ==
    [][/\ \A k \in Kinds : cache[k].present => cache'[k].present
       /\ (last'.op = "get_CID_dilutions" /\ last'.cached /\ ~last'.hit
              /\ last'.exc = "none")
             => /\ cache'[last'.kind].present
                /\ last'.kind \in last'.wrote
                /\ last'.scanned = AllKinds
       /\ (last'.op = "get_CID_dilutions" /\ last'.cached /\ last'.hit)
             => /\ cache' = cache
                /\ last'.exc = "none"
                /\ last'.scanned = {} /\ last'.wrote = {}
       /\ (last'.op = "get_CID_dilutions" /\ ~last'.cached)
             => cache' = cache /\ last'.wrote = {}]_vars

\* C7 witness: a cached call has found the file of its kind present and
\* returned its pairs with nothing scanned or written.
C7_Witness ==
    /\ last.op = "get_CID_dilutions" /\ last.cached /\ last.hit
    /\ last.exc = "none" /\ last.index # <<>>
    /\ last.scanned = {} /\ last.wrote = {}
    /\ Populated


-----------------------------------------------------------------------------
(***************************************************************************)
(* Claim about get_molecular_data (SpecMolecular).                         *)
(***************************************************************************)
\* C8: when a requested compound id is absent from the file of one of the
\* requested sources, the call ends with an exception: it returns no table,
\* and so no row for that id with the source's features missing.
C8_RaisesOnMissing ==
    (/\ molecular.done
     /\ \E i \in 1..Len(sources) :
           /\ sources[i] # "unknown"
           /\ \E CID \in CIDs : CID \notin tables[sources[i]])
        => molecular.exc # "none"


-----------------------------------------------------------------------------
(***************************************************************************)
(* Claim about write_prediction_files (SpecWrite).                         *)
(***************************************************************************)
\* The compound ids of the kind.
KindCIDs == {kind_index[i][1] : i \in 1..Len(kind_index)}

\* The place of a compound id among the kind's, ascending.
Rank(CID) == Cardinality({c \in KindCIDs : c <= CID})

\* written is value rounded to three decimals.
IsRounded(written, value) ==
    /\ written % 10 = 0
    /\ written - value <= 5 /\ value - written <= 5

Finished == writer.stage = "done" /\ writer.exc = "none"

\* C11: a finished subchallenge-1 file is its header row and one row for
\* every (subject, descriptor, compound id of the kind), the subjects
\* ascending, within a subject the descriptors in the header's order, within
\* a descriptor the compound ids ascending; a finished subchallenge-2 file
\* is its header row and one row for every (descriptor, compound id) in
\* that order; every value written is the prediction rounded to three
\* decimals.
C11_RowsInOrderRounded ==
    /\ (Finished /\ subchallenge = 1) =>
          /\ writer.header = <<"#oID", "individual", "descriptor", "value">>
          /\ Len(writer.rows) = NumSubjects * NumDescriptors * Cardinality(KindCIDs)
          /\ \A subject \in 1..NumSubjects, col \in 1..NumDescriptors, CID \in KindCIDs :
                LET row == writer.rows[((subject - 1) * NumDescriptors + (col - 1))
                                           * Cardinality(KindCIDs) + Rank(CID)]
                IN /\ row.oID = CID /\ row.individual = subject
                   /\ row.descriptor = HeaderTexts[col]
                   /\ IsRounded(row.value,
                                Y[ToString(subject)][descriptors_short[col]][CID])
    /\ (Finished /\ subchallenge = 2) =>
          /\ writer.header = <<"#oID", "descriptor", "value", "std">>
          /\ Len(writer.rows) = NumDescriptors * Cardinality(KindCIDs)
          /\ \A col \in 1..NumDescriptors, CID \in KindCIDs :
                LET row == writer.rows[(col - 1) * Cardinality(KindCIDs) + Rank(CID)]
                IN /\ row.oID = CID
                   /\ row.descriptor = HeaderTexts[col]
                   /\ IsRounded(row.value, Y["mean"][descriptors_short[col]][CID])
                   /\ IsRounded(row.std, Y["std"][descriptors_short[col]][CID])

\* C11 witness: a subchallenge-1 file of a kind with two compounds, one of
\* them at two dilutions, has been written and closed, and a value in it was
\* rounded up.
C11_Witness ==
    /\ Finished /\ subchallenge = 1 /\ writer.closed
    /\ Cardinality(KindCIDs) = 2 /\ Len(kind_index) = 3
    /\ \E n \in 1..Len(writer.rows) :
          writer.rows[n].value > Y[ToString(writer.rows[n].individual)]
                                  [descriptors_short[
                                      CHOOSE col \in 1..NumDescriptors :
                                         HeaderTexts[col] = writer.rows[n].descriptor]]
                                  [writer.rows[n].oID]


-----------------------------------------------------------------------------
(***************************************************************************)
(* Claim about the 'training-norep' and 'replicated' kinds (SpecLoad).     *)
(***************************************************************************)
\* The (compound id, dilution magnitude) pairs of the lines of the training
\* file that are marked as replicates.
Flagged ==
    {<<lines[i].CID, Magnitude(lines[i])>> :
        i \in {j \in 1..Len(lines) : lines[j].Replicate = "replicate"}}

\* The rows a kind keeps of the i-th line, with the pairs the run found.
KeptOf(kind_, i) == ExpandLine(kind_, Coerce(lines[i]), perceptual.with_replicates)

RECURSIVE KeptUpTo(_, _)
\* The rows a kind keeps of the first n lines.
KeptUpTo(kind_, n) ==
    IF n = 0 THEN <<>> ELSE KeptUpTo(kind_, n - 1) \o KeptOf(kind_, n)

\* C12: when a 'training-norep' or 'replicated' load has read the whole
\* training file, its rows are the rows its kind keeps, and of every line
\* 'replicated' keeps the row exactly when the line's pair is the pair of a
\* line marked as replicate, 'training-norep' exactly when it is not: every
\* line is kept by one of the two kinds and by one only.
C12_Partition ==
    (kind \in {"training-norep", "replicated"} /\ line_num = Len(lines))
        => /\ data = KeptUpTo(kind, Len(lines))
           /\ \A i \in 1..Len(lines) :
                 LET pair == <<lines[i].CID, Magnitude(lines[i])>>
                 IN /\ KeptOf("replicated", i) =
                          IF pair \in Flagged THEN <<Coerce(lines[i])>> ELSE <<>>
                    /\ KeptOf("training-norep", i) =
                          IF pair \notin Flagged THEN <<Coerce(lines[i])>> ELSE <<>>

\* C12 witness: a 'replicated' load of a two-line training file has kept one
\* line and dropped the other, which 'training-norep' keeps.
C12_Witness ==
    /\ kind = "replicated" /\ Len(lines) = 2 /\ line_num = 2
    /\ Len(data) = 1
    /\ \E i \in 1..2 : KeptOf("replicated", i) = <<>>
                       /\ KeptOf("training-norep", i) = <<Coerce(lines[i])>>


-----------------------------------------------------------------------------
(***************************************************************************)
(* Claim about get_CID_dilutions('training-norep') (SpecCache).            *)
(***************************************************************************)
\* C13: a call of get_CID_dilutions for 'training-norep', cached or not,
\* whether its cache file was there or not, scans no raw perceptual file:
\* what it computes, it computes from the cached 'training' and 'replicated'
\* indexes.
C13_NorepNeverScans ==
    (last.op = "get_CID_dilutions" /\ last.kind = "training-norep")
        => last.scanned = {}

=============================================================================
